---------------------------- MODULE Spec2Model ----------------------------
(***************************************************************************)
(* Model of the two pricebook adapters:                                    *)
(*   - the protocol server  (mcp-server/pricebook_mcp.py): call_tool,      *)
(*     read_resource, api_request, chat_with_agent;                        *)
(*   - the chat-UI plugin   (openwebui/pricebook_tool.py): Tools.          *)
(* Every handler is a coroutine / function that sends HTTP requests to one *)
(* backend.  A handler invocation is split at the points where it waits    *)
(* for the backend, so concurrent invocations interleave exactly at the    *)
(* awaits.  JSON and Python values are tagged records.                     *)
(***************************************************************************)
EXTENDS Integers, Sequences, FiniteSets, TLC

(***************************************************************************)
(* Python / JSON values                                                    *)
(***************************************************************************)
JNull == [t |-> "null"]
JStr(s) == [t |-> "str", s |-> s]
JNum(n) == [t |-> "num", n |-> n]
JBool(b) == [t |-> "bool", b |-> b]
JList(items) == [t |-> "list", items |-> items]
\* a dict keeps its keys in insertion order: a sequence of <<key, value>>
JObj(kv) == [t |-> "obj", kv |-> kv]

\* Python truthiness (bool(v))
PyTruthy(v) ==
    CASE v.t = "null" -> FALSE
      [] v.t = "str" -> v.s # ""
      [] v.t = "num" -> v.n # 0
      [] v.t = "bool" -> v.b
      [] v.t = "list" -> v.items # <<>>
      [] v.t = "obj" -> v.kv # <<>>

\* str(v) / f"{v}" for the scalar values an argument can hold
PyStr(v) ==
    CASE v.t = "null" -> "None"
      [] v.t = "str" -> v.s
      [] v.t = "num" -> ToString(v.n)
      [] v.t = "bool" -> IF v.b THEN "True" ELSE "False"
      [] v.t = "list" -> "[...]"
      [] v.t = "obj" -> "{...}"

\* type(v).__name__
PyTypeName(v) ==
    CASE v.t = "null" -> "NoneType"
      [] v.t = "str" -> "str"
      [] v.t = "num" -> "int"
      [] v.t = "bool" -> "bool"
      [] v.t = "list" -> "list"
      [] v.t = "obj" -> "dict"

\* key in d
HasKey(d, k) == \E i \in 1..Len(d.kv) : d.kv[i][1] = k

\* d[k] for a key that is present
Lookup(d, k) == d.kv[CHOOSE i \in 1..Len(d.kv) : d.kv[i][1] = k][2]

\* d.get(k, default)
DictGet(d, k, default) == IF HasKey(d, k) THEN Lookup(d, k) ELSE default

\* the result of evaluating an expression: a value or a raised exception
Ok(v) == [exc |-> FALSE, cls |-> "", v |-> v]
Raise(cls, e) == [exc |-> TRUE, cls |-> cls, v |-> e]

\* repr() of a key, as str(KeyError(k)) prints it
KeyErrorText(k) == "'" \o k \o "'"

\* str(AttributeError) of calling .get on a value that is no dict
NoGetText(v) == "'" \o PyTypeName(v) \o "' object has no attribute 'get'"

RECURSIVE Spaces(_)
Spaces(n) == IF n = 0 THEN "" ELSE " " \o Spaces(n - 1)

\* json.dumps(v, indent=2, default=str), at nesting depth lvl
RECURSIVE JsonDumps(_, _)
RECURSIVE JsonItems(_, _, _)
JsonItems(items, lvl, i) ==
    IF i > Len(items) THEN ""
    ELSE Spaces(2 * lvl) \o JsonDumps(items[i], lvl)
         \o (IF i < Len(items) THEN ",\n" ELSE "\n")
         \o JsonItems(items, lvl, i + 1)
RECURSIVE JsonMembers(_, _, _)
JsonMembers(kv, lvl, i) ==
    IF i > Len(kv) THEN ""
    ELSE Spaces(2 * lvl) \o "\"" \o kv[i][1] \o "\": " \o JsonDumps(kv[i][2], lvl)
         \o (IF i < Len(kv) THEN ",\n" ELSE "\n")
         \o JsonMembers(kv, lvl, i + 1)
JsonDumps(v, lvl) ==
    CASE v.t = "null" -> "null"
      [] v.t = "str" -> "\"" \o v.s \o "\""
      [] v.t = "num" -> ToString(v.n)
      [] v.t = "bool" -> IF v.b THEN "true" ELSE "false"
      [] v.t = "list" ->
            IF v.items = <<>> THEN "[]"
            ELSE "[\n" \o JsonItems(v.items, lvl + 1, 1) \o Spaces(2 * lvl) \o "]"
      [] v.t = "obj" ->
            IF v.kv = <<>> THEN "{}"
            ELSE "{\n" \o JsonMembers(v.kv, lvl + 1, 1) \o Spaces(2 * lvl) \o "}"

(***************************************************************************)
(* Protocol server: configuration and HTTP helpers                         *)
(***************************************************************************)
\* os.getenv("PRICEBOOK_API_URL", "http://localhost:3001")
DefaultApiBaseUrl == "http://localhost:3001"
\* os.getenv("MCP_SESSION_ID", "mcp-python-session")
DefaultSessionIdLiteral == "mcp-python-session"
\* os.getenv(name, default): env maps a name to a string, or to null when unset
GetEnv(env, name, default) == IF env[name].t = "null" THEN default ELSE env[name].s

\* one call of api_request(endpoint, method, body), before it is executed
Call(endpoint, method, body) == [endpoint |-> endpoint, method |-> method, body |-> body]

\* api_request up to its await: the HTTP request it sends, or the ValueError
\* of an unsupported method.  GET sends no body, POST and PATCH send `body or {}`.
ApiRequest(base, c) ==
    IF c.method = "GET"
    THEN Ok([method |-> "GET", url |-> base \o c.endpoint, body |-> JNull])
    ELSE IF c.method \in {"POST", "PATCH"}
    THEN Ok([method |-> c.method, url |-> base \o c.endpoint,
             body |-> IF PyTruthy(c.body) THEN c.body ELSE JObj(<<>>)])
    ELSE Raise("ValueError", "Unsupported method: " \o c.method)

\* chat_with_agent(session_id, message)
ChatWithAgent(session_id, message) ==
    Call("/chat/pricebook", "POST",
         JObj(<< <<"sessionId", session_id>>, <<"message", message>> >>))

\* the outcome of the backend for one request, as the HTTP client reports it
\*   k = "connect" | "timeout" : no response
\*   k = "http"                : a response with a status and a body that is
\*                               JSON (isjson, body) or not
ConnectFailure == [k |-> "connect", status |-> 0, isjson |-> FALSE, body |-> JNull]
TimeoutFailure == [k |-> "timeout", status |-> 0, isjson |-> FALSE, body |-> JNull]
HttpJson(status, body) == [k |-> "http", status |-> status, isjson |-> TRUE, body |-> body]
HttpText(status) == [k |-> "http", status |-> status, isjson |-> FALSE, body |-> JNull]

JsonDecodeErrorText == "Expecting value: line 1 column 1 (char 0)"

\* api_request after its await: `return response.json()`; the status is not
\* looked at; httpx raises on a connection failure or a timeout
ApiResponse(resp) ==
    CASE resp.k = "connect" -> Raise("ConnectError", "All connection attempts failed")
      [] resp.k = "timeout" -> Raise("ReadTimeout", "")
      [] resp.k = "http" ->
            IF resp.isjson THEN Ok(resp.body)
            ELSE Raise("JSONDecodeError", JsonDecodeErrorText)

(***************************************************************************)
(* Protocol server: call_tool                                              *)
(***************************************************************************)
\* session_id = arguments.get("sessionId") or DEFAULT_SESSION_ID
SessionIdOrDefault(arguments, default_session_id) ==
    IF PyTruthy(DictGet(arguments, "sessionId", JNull))
    THEN Lookup(arguments, "sessionId")
    ELSE JStr(default_session_id)

\* session_id = arguments.get("sessionId", DEFAULT_SESSION_ID)
SessionId(arguments, default_session_id) ==
    DictGet(arguments, "sessionId", JStr(default_session_id))

Calls(cs) == [kind |-> "calls", calls |-> cs, cls |-> "", e |-> ""]
KeyError(k) == [kind |-> "raise", calls |-> <<>>, cls |-> "KeyError", e |-> KeyErrorText(k)]
UnknownTool == [kind |-> "unknown", calls |-> <<>>, cls |-> "", e |-> ""]

\* arguments[k] inside an expression: KeyError when k is missing
Require(arguments, k, then) == IF HasKey(arguments, k) THEN then ELSE KeyError(k)

\* the update dict of update_service / update_material: the listed keys that
\* are in arguments, in the listed order
RECURSIVE PickKeys(_, _)
PickKeys(arguments, keys) ==
    IF keys = <<>> THEN <<>>
    ELSE (IF HasKey(arguments, Head(keys))
          THEN << <<Head(keys), Lookup(arguments, Head(keys))>> >>
          ELSE <<>>) \o PickKeys(arguments, Tail(keys))

\* f"{arguments.get('limit') or default}": a limit of 0 falls back to the default
LimitQueryOrDefault(arguments, default) ==
    IF PyTruthy(DictGet(arguments, "limit", JNull))
    THEN PyStr(Lookup(arguments, "limit"))
    ELSE PyStr(JNum(default))

\* f"{arguments.get('limit', default)}": the limit as the query string carries it
LimitQuery(arguments, default) == PyStr(DictGet(arguments, "limit", JNum(default)))

\* get_materials / get_services taking the chat branch whenever the category
\* key is present, also for an empty category
CatalogCallsKeyPresent(arguments, session_id, kind) ==
    IF HasKey(arguments, "category")
    THEN [kind |-> "calls", cls |-> "", e |-> "",
          calls |-> <<ChatWithAgent(session_id,
                        JStr("show " \o PyStr(Lookup(arguments, "category")) \o " " \o kind))>>]
    ELSE [kind |-> "calls", cls |-> "", e |-> "",
          calls |-> <<Call("/pricebook/" \o kind \o "?pageSize="
                           \o LimitQuery(arguments, 25), "GET", JNull)>>]

\* get_materials / get_services
CatalogCalls(arguments, session_id, kind) ==
    IF PyTruthy(DictGet(arguments, "category", JNull))
    THEN Calls(<<ChatWithAgent(session_id,
                    JStr("show " \o PyStr(Lookup(arguments, "category")) \o " " \o kind))>>)
    ELSE Calls(<<Call("/pricebook/" \o kind \o "?pageSize="
                        \o LimitQuery(arguments, 25), "GET", JNull)>>)

\* the if/elif chain of call_tool: the api_request calls the named branch
\* makes, in order, or the exception raised while building the first one
Dispatch(name, arguments, session_id) ==
    CASE name = "search_pricebook" ->
            Require(arguments, "query",
                Calls(<<ChatWithAgent(session_id, JStr("search " \o PyStr(Lookup(arguments, "query"))))>>))
      [] name = "list_categories" ->
            Calls(<<ChatWithAgent(session_id, JStr("show categories"))>>)
      [] name = "get_materials" -> CatalogCalls(arguments, session_id, "materials")
      [] name = "get_services" -> CatalogCalls(arguments, session_id, "services")
      [] name = "get_equipment" ->
            Calls(<<Call("/pricebook/equipment?pageSize="
                        \o LimitQuery(arguments, 25), "GET", JNull)>>)
      [] name = "start_estimate" ->
            LET job_ref == IF PyTruthy(DictGet(arguments, "jobId", JNull))
                           THEN "job " \o PyStr(Lookup(arguments, "jobId"))
                           ELSE PyStr(DictGet(arguments, "jobName", JStr("new job")))
            IN Calls(<<ChatWithAgent(session_id, JStr("start estimate for " \o job_ref))>>)
      [] name = "add_to_estimate" ->
            Require(arguments, "items",
                Calls(<<ChatWithAgent(session_id, JStr("add " \o PyStr(Lookup(arguments, "items"))))>>))
      [] name = "show_estimate" ->
            Calls(<<ChatWithAgent(session_id, JStr("show estimate"))>>)
      [] name = "remove_from_estimate" ->
            Require(arguments, "item",
                Calls(<<ChatWithAgent(session_id, JStr("remove " \o PyStr(Lookup(arguments, "item"))))>>))
      [] name = "create_estimate" ->
            IF PyTruthy(DictGet(arguments, "confirm", JNull))
            THEN Calls(<<ChatWithAgent(session_id, JStr("create estimate")),
                         ChatWithAgent(session_id, JStr("yes"))>>)
            ELSE Calls(<<ChatWithAgent(session_id, JStr("create estimate"))>>)
      [] name = "clear_estimate" ->
            Calls(<<ChatWithAgent(session_id, JStr("clear estimate"))>>)
      [] name = "get_sync_status" ->
            Calls(<<Call("/api/sync/pricebook/status", "GET", JNull)>>)
      [] name = "trigger_sync" ->
            Require(arguments, "type",
                Calls(<<Call("/api/sync/pricebook/" \o PyStr(Lookup(arguments, "type")),
                             "POST", JNull)>>))
      [] name = "get_sync_logs" ->
            Calls(<<Call("/api/sync/pricebook/logs?limit="
                        \o LimitQuery(arguments, 10), "GET", JNull)>>)
      [] name = "get_service_details" ->
            Require(arguments, "serviceId",
                Calls(<<Call("/pricebook/services/" \o PyStr(Lookup(arguments, "serviceId")),
                             "GET", JNull)>>))
      [] name = "get_material_details" ->
            Require(arguments, "materialId",
                Calls(<<Call("/pricebook/materials/" \o PyStr(Lookup(arguments, "materialId")),
                             "GET", JNull)>>))
      [] name = "update_service" ->
            LET update == JObj(PickKeys(arguments, <<"price", "memberPrice", "addOnPrice">>))
            IN Require(arguments, "serviceId",
                Calls(<<Call("/pricebook/services/" \o PyStr(Lookup(arguments, "serviceId")),
                             "PATCH", update)>>))
      [] name = "update_material" ->
            LET update == JObj(PickKeys(arguments, <<"price", "cost">>))
            IN Require(arguments, "materialId",
                Calls(<<Call("/pricebook/materials/" \o PyStr(Lookup(arguments, "materialId")),
                             "PATCH", update)>>))
      [] name = "list_webhook_events" ->
            Calls(<<Call("/api/n8n/events", "GET", JNull)>>)
      [] name = "list_webhook_subscriptions" ->
            Calls(<<Call("/api/n8n/subscriptions", "GET", JNull)>>)
      [] name = "subscribe_webhook" ->
            Require(arguments, "webhookUrl",
                Require(arguments, "events",
                    Calls(<<Call("/api/n8n/subscribe", "POST",
                                 JObj(<< <<"webhookUrl", Lookup(arguments, "webhookUrl")>>,
                                         <<"events", Lookup(arguments, "events")>>,
                                         <<"name", DictGet(arguments, "name", JNull)>> >>))>>)))
      [] name = "chat" ->
            Require(arguments, "message",
                Calls(<<ChatWithAgent(session_id, Lookup(arguments, "message"))>>))
      [] OTHER -> UnknownTool

\* "Format response" appending the estimate summary whenever the context has
\* an estimateTotal key, also for a total of 0
FormatResponseTotalPresent(result) ==
    IF ~PyTruthy(result) THEN Ok(JsonDumps(result, 0))
    ELSE IF result.t # "obj" THEN Raise("AttributeError", NoGetText(result))
    ELSE LET message == DictGet(result, "message", JNull) IN
         IF ~PyTruthy(message) THEN Ok(JsonDumps(result, 0))
         ELSE LET ctx == DictGet(result, "context", JObj(<<>>)) IN
              IF ctx.t # "obj" THEN Raise("AttributeError", NoGetText(ctx))
              ELSE IF message.t # "str"
              THEN Raise("ValidationError", "Input should be a valid string")
              ELSE IF HasKey(ctx, "estimateTotal")
              THEN Ok(message.s \o "\n\n[Estimate: "
                      \o PyStr(DictGet(ctx, "estimateItemCount", JNum(0)))
                      \o " items, $" \o PyStr(Lookup(ctx, "estimateTotal")) \o "]")
              ELSE Ok(message.s)

\* "Format response" testing `"message" in result` instead of the truth of
\* result.get("message")
FormatResponseKeyPresent(result) ==
    IF result.t # "obj"
    THEN IF PyTruthy(result) THEN Raise("AttributeError", NoGetText(result))
         ELSE Ok(JsonDumps(result, 0))
    ELSE IF HasKey(result, "message") /\ Lookup(result, "message").t = "str"
    THEN LET ctx == DictGet(result, "context", JObj(<<>>))
             total == IF ctx.t = "obj" THEN DictGet(ctx, "estimateTotal", JNull) ELSE JNull
         IN IF PyTruthy(total)
            THEN Ok(Lookup(result, "message").s \o "\n\n[Estimate: "
                    \o PyStr(DictGet(ctx, "estimateItemCount", JNum(0)))
                    \o " items, $" \o PyStr(total) \o "]")
            ELSE Ok(Lookup(result, "message").s)
    ELSE Ok(JsonDumps(result, 0))

\* "Format response": the text of a backend payload, or the exception raised
\* while formatting it
FormatResponse(result) ==
    IF ~PyTruthy(result) THEN Ok(JsonDumps(result, 0))
    ELSE IF result.t # "obj" THEN Raise("AttributeError", NoGetText(result))
    ELSE LET message == DictGet(result, "message", JNull) IN
         IF ~PyTruthy(message) THEN Ok(JsonDumps(result, 0))
         ELSE LET ctx == DictGet(result, "context", JObj(<<>>)) IN
              IF ctx.t # "obj" THEN Raise("AttributeError", NoGetText(ctx))
              ELSE LET total == DictGet(ctx, "estimateTotal", JNull) IN
                   IF PyTruthy(total)
                   THEN IF message.t # "str"
                        THEN Raise("TypeError", "unsupported operand type(s) for +=: '"
                                      \o PyTypeName(message) \o "' and 'str'")
                        ELSE Ok(message.s \o "\n\n[Estimate: "
                                \o PyStr(DictGet(ctx, "estimateItemCount", JNum(0)))
                                \o " items, $" \o PyStr(total) \o "]")
                   ELSE IF message.t # "str"
                        THEN Raise("ValidationError", "Input should be a valid string")
                        ELSE Ok(message.s)

\* except Exception as e: text=f"Error: {str(e)}"
ErrorText(e) == "Error: " \o e

(***************************************************************************)
(* One invocation of a handler                                             *)
(***************************************************************************)
\* what an invocation hands back to its host: a value, or a raised exception
Returned(val) == [raised |-> FALSE, val |-> val]
Raised(e) == [raised |-> TRUE, val |-> JStr(e)]
NoOut == [raised |-> FALSE, val |-> JNull]

\* pc        "idle", "awaiting" (suspended on the backend) or "done"
\* fn        the handler; name: its tool name, uri or query
\* plan      the api_request calls the handler has still to make
\* sent      the requests sent so far; inflight: those not yet answered
\* resps     the backend outcomes received so far
Idle ==
    [pc |-> "idle", fn |-> "", name |-> "", arguments |-> JObj(<<>>),
     session_id |-> JNull, plan |-> <<>>, sent |-> <<>>, inflight |-> <<>>,
     resps |-> <<>>, out |-> NoOut]

\* consecutive api_request calls started together (asyncio.gather) instead
\* of awaited one after the other
AwaitStepGather(calls) == [now |-> calls, later |-> <<>>]

\* `await` of consecutive api_request statements: the first call is made now,
\* the following ones only after it has returned
AwaitStep(calls) == [now |-> <<Head(calls)>>, later |-> Tail(calls)]

\* the handler sends the requests of its next await and suspends: the
\* suspended state, or the exception api_request raised before sending
Issue(base, st, calls) ==
    LET step == AwaitStep(calls)
        reqs == [j \in 1..Len(step.now) |-> ApiRequest(base, step.now[j])]
    IN IF \E j \in 1..Len(reqs) : reqs[j].exc
       THEN reqs[CHOOSE j \in 1..Len(reqs) :
                    reqs[j].exc /\ \A h \in 1..(j - 1) : ~reqs[h].exc]
       ELSE Ok([st EXCEPT !.pc = "awaiting", !.plan = step.later,
                          !.sent = @ \o [j \in 1..Len(reqs) |-> reqs[j].v],
                          !.inflight = @ \o [j \in 1..Len(reqs) |-> reqs[j].v]])

\* the response to the oldest outstanding request has arrived
Received(st, resp) == [st EXCEPT !.inflight = Tail(@), !.resps = Append(@, resp)]

\* call_tool returns [TextContent(text=...)]: the formatted text, or the
\* "Error: ..." text of the except clause
CallToolFinish(st, r) ==
    [st EXCEPT !.pc = "done", !.plan = <<>>,
               !.out = Returned(JStr(IF r.exc THEN ErrorText(r.v) ELSE r.v))]

\* call_tool from its entry to its first await (or to its return)
CallToolStart(name, arguments, default_session_id, base) ==
    LET session_id == SessionId(arguments, default_session_id)
        st == [Idle EXCEPT !.fn = "call_tool", !.name = name,
                           !.arguments = arguments, !.session_id = session_id]
        d == Dispatch(name, arguments, session_id)
        issued == Issue(base, st, d.calls)
    IN CASE d.kind = "unknown" ->
                [st EXCEPT !.pc = "done", !.out = Returned(JStr("Unknown tool: " \o name))]
         [] d.kind = "raise" -> CallToolFinish(st, Raise(d.cls, d.e))
         [] d.kind = "calls" ->
                IF issued.exc THEN CallToolFinish(st, issued) ELSE issued.v

\* call_tool going on to its next request although the previous one failed
\* (the first await wrapped in its own try/except: pass)
CallToolResumeIgnoreFailure(st, resp, base) ==
    LET r == ApiResponse(resp)
        st1 == Received(st, resp)
        issued == Issue(base, st1, st1.plan)
    IN IF st1.plan # <<>>
       THEN IF issued.exc THEN CallToolFinish(st1, issued) ELSE issued.v
       ELSE IF r.exc THEN CallToolFinish(st1, r)
       ELSE CallToolFinish(st1, FormatResponse(r.v))

\* call_tool retrying a failed request once instead of reporting the failure
CallToolResumeRetry(st, resp, base) ==
    LET r == ApiResponse(resp)
        st1 == Received(st, resp)
        issued == Issue(base, st1, st1.plan)
    IN IF r.exc
       THEN IF Len(st.resps) = 0
            THEN [st1 EXCEPT !.sent = @ \o st.inflight, !.inflight = st.inflight]
            ELSE CallToolFinish(st1, r)
       ELSE IF st1.plan # <<>>
       THEN IF issued.exc THEN CallToolFinish(st1, issued) ELSE issued.v
       ELSE CallToolFinish(st1, FormatResponse(r.v))

\* call_tool from the arrival of a response to its next await or its return
CallToolResume(st, resp, base) ==
    LET r == ApiResponse(resp)
        st1 == Received(st, resp)
        issued == Issue(base, st1, st1.plan)
    IN IF r.exc THEN CallToolFinish(st1, r)
       ELSE IF st1.plan # <<>>
       THEN IF issued.exc THEN CallToolFinish(st1, issued) ELSE issued.v
       ELSE CallToolFinish(st1, FormatResponse(r.v))

(***************************************************************************)
(* Protocol server: read_resource                                          *)
(***************************************************************************)
ReadResourceFinish(st, r) ==
    [st EXCEPT !.pc = "done", !.plan = <<>>,
               !.out = IF r.exc THEN Raised(r.v) ELSE Returned(JStr(r.v))]

\* the uri chain of read_resource with the status read as its else branch
ResourceCallsFallback(uri, default_session_id) ==
    CASE uri = "pricebook://categories" ->
            [kind |-> "calls", cls |-> "", e |-> "",
             calls |-> <<ChatWithAgent(JStr(default_session_id), JStr("show categories"))>>]
      [] uri = "pricebook://webhook-events" ->
            [kind |-> "calls", cls |-> "", e |-> "",
             calls |-> <<Call("/api/n8n/events", "GET", JNull)>>]
      [] OTHER ->
            [kind |-> "calls", cls |-> "", e |-> "",
             calls |-> <<Call("/api/sync/pricebook/status", "GET", JNull)>>]

\* the uri chain of read_resource
ResourceCalls(uri, default_session_id) ==
    CASE uri = "pricebook://status" ->
            Calls(<<Call("/api/sync/pricebook/status", "GET", JNull)>>)
      [] uri = "pricebook://categories" ->
            Calls(<<ChatWithAgent(JStr(default_session_id), JStr("show categories"))>>)
      [] uri = "pricebook://webhook-events" ->
            Calls(<<Call("/api/n8n/events", "GET", JNull)>>)
      [] OTHER ->
            [kind |-> "raise", calls |-> <<>>, cls |-> "ValueError",
             e |-> "Unknown resource: " \o uri]

ReadResourceStart(uri, default_session_id, base) ==
    LET st == [Idle EXCEPT !.fn = "read_resource", !.name = uri,
                           !.session_id = JStr(default_session_id)]
        d == ResourceCalls(uri, default_session_id)
        issued == Issue(base, st, d.calls)
    IN IF d.kind = "raise" THEN ReadResourceFinish(st, Raise(d.cls, d.e))
       ELSE IF issued.exc THEN ReadResourceFinish(st, issued) ELSE issued.v

\* data = result.get("data", result) for categories, the result otherwise;
\* return json.dumps(data, indent=2, default=str)
ReadResourceResume(st, resp) ==
    LET r == ApiResponse(resp)
        st1 == Received(st, resp)
    IN IF r.exc THEN ReadResourceFinish(st1, r)
       ELSE IF st.name = "pricebook://categories"
       THEN IF r.v.t # "obj"
            THEN ReadResourceFinish(st1, Raise("AttributeError", NoGetText(r.v)))
            ELSE ReadResourceFinish(st1, Ok(JsonDumps(DictGet(r.v, "data", r.v), 0)))
       ELSE ReadResourceFinish(st1, Ok(JsonDumps(r.v, 0)))

(***************************************************************************)
(* Chat-UI plugin: class Tools                                             *)
(***************************************************************************)
\* Tools.__init__
ToolsInit == [base_url |-> "http://perfect-catch-st-automation:3001",
              session_id |-> "openwebui"]

LowerLetters == "abcdefghijklmnopqrstuvwxyz"
UpperLetters == "ABCDEFGHIJKLMNOPQRSTUVWXYZ"
\* position of the one-character string ch in alphabet, 0 when absent
LetterIndex(ch, alphabet) ==
    IF \E j \in 1..Len(alphabet) : SubSeq(alphabet, j, j) = ch
    THEN CHOOSE j \in 1..Len(alphabet) : SubSeq(alphabet, j, j) = ch
    ELSE 0

\* str.title(): the first letter of every run of letters in upper case, the
\* other letters in lower case
RECURSIVE TitleFrom(_, _, _)
TitleFrom(s, i, inWord) ==
    IF i > Len(s) THEN ""
    ELSE LET ch == SubSeq(s, i, i)
             lo == LetterIndex(ch, LowerLetters)
             up == LetterIndex(ch, UpperLetters)
             k == IF lo > 0 THEN lo ELSE up
         IN IF k = 0 THEN ch \o TitleFrom(s, i + 1, FALSE)
            ELSE (IF inWord THEN SubSeq(LowerLetters, k, k) ELSE SubSeq(UpperLetters, k, k))
                 \o TitleFrom(s, i + 1, TRUE)
Title(s) == TitleFrom(s, 1, FALSE)

\* requests: raise_for_status() and json() of a response, and the exceptions
\* of a failed connection or a timeout
RequestsResponse(resp, url) ==
    CASE resp.k = "connect" -> Raise("ConnectionError", "Connection refused")
      [] resp.k = "timeout" -> Raise("Timeout", "Read timed out. (read timeout=30)")
      [] resp.k = "http" ->
            IF resp.status >= 400
            THEN Raise("HTTPError", ToString(resp.status)
                          \o (IF resp.status < 500 THEN " Client Error" ELSE " Server Error")
                          \o " for url: " \o url)
            ELSE IF resp.isjson THEN Ok(resp.body)
            ELSE Raise("JSONDecodeError", JsonDecodeErrorText)

PluginFinish(st, val) == [st EXCEPT !.pc = "done", !.plan = <<>>, !.out = Returned(val)]

\* requests.post / requests.get: the request is on the wire and the caller blocks
PluginSend(st, req) ==
    [st EXCEPT !.pc = "awaiting", !.sent = Append(@, req), !.inflight = Append(@, req)]

\* Tools.search_pricebook up to the blocking requests.post
SearchPricebookStart(self, fn, query) ==
    PluginSend([Idle EXCEPT !.fn = fn, !.name = query, !.session_id = JStr(self.session_id)],
               [method |-> "POST", url |-> self.base_url \o "/chat/pricebook",
                body |-> JObj(<< <<"sessionId", JStr(self.session_id)>>,
                                 <<"message", JStr(query)>> >>)])

\* Tools.get_pricebook_categories
GetPricebookCategoriesStart(self) ==
    SearchPricebookStart(self, "get_pricebook_categories", "show me all categories")

\* Tools.search_pricebook from the response on
SearchPricebookResume(st, resp) ==
    LET r == RequestsResponse(resp, Head(st.inflight).url)
        st1 == Received(st, resp)
    IN IF r.exc
       THEN CASE r.cls = "ConnectionError" ->
                    PluginFinish(st1, JStr("Error: Could not connect to Pricebook service. Make sure the service is running."))
              [] r.cls = "Timeout" ->
                    PluginFinish(st1, JStr("Error: Request timed out. Please try again."))
              [] OTHER -> PluginFinish(st1, JStr("Error: " \o r.v))
       ELSE IF r.v.t # "obj" THEN PluginFinish(st1, JStr("Error: " \o NoGetText(r.v)))
       ELSE IF PyTruthy(DictGet(r.v, "success", JNull))
       THEN PluginFinish(st1, DictGet(r.v, "message", JStr("No results found")))
       ELSE PluginFinish(st1, JStr("Error: " \o PyStr(DictGet(r.v, "error", JStr("Unknown error")))))

\* Tools.get_pricebook_status up to the blocking requests.get
GetPricebookStatusStart(self) ==
    PluginSend([Idle EXCEPT !.fn = "get_pricebook_status", !.session_id = JStr(self.session_id)],
               [method |-> "GET", url |-> self.base_url \o "/api/sync/pricebook/status",
                body |-> JNull])

\* the loop `for stat in stats`: the lines of the status text (the bullet
\* character of the source is written "*"), or the
\* exception a malformed entry raises
RECURSIVE StatLines(_, _)
StatLines(stats, i) ==
    IF i > Len(stats) THEN Ok("")
    ELSE LET stat == stats[i] IN
         IF stat.t # "obj" THEN Raise("AttributeError", NoGetText(stat))
         ELSE LET entity == DictGet(stat, "entity_type", JStr("unknown"))
                  total == DictGet(stat, "total_count", JNum(0))
                  rest == StatLines(stats, i + 1)
              IN IF entity.t # "str"
                 THEN Raise("AttributeError",
                            "'" \o PyTypeName(entity) \o "' object has no attribute 'title'")
                 ELSE IF rest.exc THEN rest
                 ELSE Ok("* " \o Title(entity.s) \o ": " \o PyStr(total) \o " items\n" \o rest.v)

\* the scheduler paragraph of the status text
SchedulerLines(data) ==
    LET scheduler == DictGet(data, "scheduler", JObj(<<>>)) IN
    IF scheduler.t # "obj" THEN Raise("AttributeError", NoGetText(scheduler))
    ELSE IF ~PyTruthy(DictGet(scheduler, "isRunning", JNull)) THEN Ok("")
    ELSE LET schedules == DictGet(scheduler, "schedules", JObj(<<>>)) IN
         IF schedules.t # "obj" THEN Raise("AttributeError", NoGetText(schedules))
         ELSE Ok("\n**Sync Scheduler:** Running\n"
                 \o "* Full sync: " \o PyStr(DictGet(schedules, "fullSync", JStr("N/A"))) \o "\n"
                 \o "* Incremental: " \o PyStr(DictGet(schedules, "incrementalSync", JStr("N/A"))) \o "\n")

\* the body of the try block of get_pricebook_status, given the parsed data
StatusText(data) ==
    IF data.t # "obj" THEN Raise("AttributeError", NoGetText(data))
    ELSE IF ~PyTruthy(DictGet(data, "success", JNull))
    THEN Ok("Error: " \o PyStr(DictGet(data, "error", JStr("Unknown error"))))
    ELSE LET stats == DictGet(data, "stats", JList(<<>>)) IN
         IF stats.t # "list"
         THEN Raise("TypeError", "'" \o PyTypeName(stats) \o "' object is not iterable")
         ELSE LET lines == StatLines(stats.items, 1)
                  sched == SchedulerLines(data)
              IN IF lines.exc THEN lines
                 ELSE IF sched.exc THEN sched
                 ELSE Ok("**Pricebook Status:**\n\n" \o lines.v \o sched.v)

\* Tools.get_pricebook_status from the response on
GetPricebookStatusResume(st, resp) ==
    LET r == RequestsResponse(resp, Head(st.inflight).url)
        st1 == Received(st, resp)
        t == IF r.exc THEN r ELSE StatusText(r.v)
    IN PluginFinish(st1, JStr(IF t.exc THEN "Error getting status: " \o t.v ELSE t.v))

(***************************************************************************)
(* Inputs: tool names and argument maps, resource uris, queries, and the   *)
(* outcomes of the backend                                                 *)
(***************************************************************************)
\* the number of invocation slots, i.e. of handler invocations that can be
\* in progress at the same time
NumInvocations == 2

\* an optional argument: absent, or present with one of the values
Opt(k, values) == {<<>>} \cup {<< <<k, v>> >> : v \in values}
Both(A, B) == {a \o b : a \in A, b \in B}

SessionOpts == Opt("sessionId", {JStr("sess-A"), JStr(""), JNull})
LimitOpts == Opt("limit", {JNum(0), JNum(50)})
CategoryOpts == Opt("category", {JStr(""), JStr("pipe")})

\* the 22 tool names of list_tools
ToolNames ==
    {"search_pricebook", "list_categories", "get_materials", "get_services",
     "get_equipment", "start_estimate", "add_to_estimate", "show_estimate",
     "remove_from_estimate", "create_estimate", "clear_estimate",
     "get_sync_status", "trigger_sync", "get_sync_logs", "get_service_details",
     "get_material_details", "update_service", "update_material",
     "list_webhook_events", "list_webhook_subscriptions", "subscribe_webhook",
     "chat"}

\* the argument maps tried for a tool: every optional and required argument
\* of its input schema absent and present, and values outside the schema
ToolArgs(name) ==
    CASE name = "search_pricebook" -> Both(Opt("query", {JStr("pump")}), SessionOpts)
      [] name \in {"get_materials", "get_services"} ->
            Both(Both(CategoryOpts, LimitOpts), SessionOpts)
      [] name \in {"get_equipment", "get_sync_logs"} -> Both(LimitOpts, SessionOpts)
      [] name = "start_estimate" ->
            Both(Both(Opt("jobId", {JStr(""), JStr("J7")}), Opt("jobName", {JStr("Pool")})),
                 SessionOpts)
      [] name = "add_to_estimate" -> Both(Opt("items", {JStr("2 pumps")}), SessionOpts)
      [] name = "remove_from_estimate" -> Both(Opt("item", {JStr("1")}), SessionOpts)
      [] name = "create_estimate" ->
            Both(Opt("confirm", {JBool(TRUE), JBool(FALSE)}), SessionOpts)
      [] name = "trigger_sync" ->
            Both(Opt("type", {JStr("full"), JStr("incremental"), JStr("reset")}), SessionOpts)
      [] name = "get_service_details" -> Both(Opt("serviceId", {JStr("S1")}), SessionOpts)
      [] name = "get_material_details" -> Both(Opt("materialId", {JStr("M1")}), SessionOpts)
      [] name = "update_service" ->
            Both(Both(Opt("addOnPrice", {JNum(5)}), Opt("price", {JNum(10)})),
                 Both(Opt("serviceId", {JStr("S1")}), Opt("sessionId", {JStr("sess-A")})))
      [] name = "update_material" ->
            Both(Both(Opt("cost", {JNum(3)}), Opt("price", {JNum(10)})),
                 Both(Opt("materialId", {JStr("M1")}), Opt("sessionId", {JStr("sess-A")})))
      [] name = "subscribe_webhook" ->
            Both(Both(Opt("webhookUrl", {JStr("http://hook")}),
                      Opt("events", {JList(<<JStr("sync.done")>>)})),
                 Both(Opt("name", {JStr("n8n")}), Opt("sessionId", {JStr("sess-A")})))
      [] name = "chat" -> Both(Opt("message", {JStr("hello")}), SessionOpts)
      [] OTHER -> SessionOpts

\* a name list_tools does not register
UnregisteredTool == "delete_everything"

ToolCalls(names) == UNION {{<<n, JObj(a)>> : a \in ToolArgs(n)} : n \in names}

ResourceUris == {"pricebook://status", "pricebook://categories", "pricebook://webhook-events"}
OtherUri == "pricebook://materials"

\* JSON payloads of the backend
MessagePayload == JObj(<< <<"success", JBool(TRUE)>>, <<"message", JStr("Found 3 items")>> >>)
EstimatePayload(count, total) ==
    JObj(<< <<"success", JBool(TRUE)>>, <<"message", JStr("Added")>>,
            <<"context", JObj(count \o total)>> >>)
StatusPayload ==
    JObj(<< <<"success", JBool(TRUE)>>,
            <<"stats", JList(<<JObj(<< <<"entity_type", JStr("materials")>>,
                                       <<"total_count", JNum(12)>> >>)>>)>>,
            <<"scheduler", JObj(<< <<"isRunning", JBool(TRUE)>>,
                                   <<"schedules", JObj(<< <<"fullSync", JStr("daily")>> >>)>> >>)>> >>)
ErrorPayload == JObj(<< <<"success", JBool(FALSE)>>, <<"error", JStr("Not found")>> >>)
Payloads ==
    {MessagePayload, StatusPayload, ErrorPayload,
     JObj(<< <<"success", JBool(TRUE)>>, <<"message", JStr("")>> >>),
     JObj(<< <<"success", JBool(TRUE)>>, <<"message", JNull>> >>),
     JObj(<< <<"success", JBool(TRUE)>>, <<"data", JList(<<JStr("Pumps")>>)>> >>),
     JObj(<<>>), JList(<<>>), JList(<<JObj(<< <<"id", JNum(1)>> >>)>>), JNull}
    \cup {EstimatePayload(c, t) :
            c \in Opt("estimateItemCount", {JNum(2)}),
            t \in Opt("estimateTotal", {JNum(0), JNum(150)})}

Responses ==
    {ConnectFailure, TimeoutFailure, HttpText(200), HttpText(502),
     HttpJson(500, ErrorPayload), HttpJson(404, MessagePayload)}
    \cup {HttpJson(200, p) : p \in Payloads}

\* the process environment the server is started in
Envs ==
    {[MCP_SESSION_ID |-> JNull, PRICEBOOK_API_URL |-> JNull],
     [MCP_SESSION_ID |-> JStr("env-session"), PRICEBOOK_API_URL |-> JStr("http://api:3001")]}

\* what a run draws its inputs from; track: remember the first completed
\* invocation (history only)
Full ==
    [slots |-> {1},
     tools |-> ToolCalls(ToolNames \cup {UnregisteredTool}),
     uris |-> ResourceUris \cup {OtherUri},
     queries |-> {"pool pump"},
     resps |-> Responses,
     track |-> FALSE]
Concurrent ==
    [slots |-> 1..NumInvocations,
     tools |-> {<<"create_estimate", JObj(<< <<"confirm", JBool(TRUE)>> >>)>>,
                <<"show_estimate", JObj(<<>>)>>,
                <<"show_estimate", JObj(<< <<"sessionId", JStr("sess-A")>> >>)>>},
     uris |-> {"pricebook://categories"},
     queries |-> {"pool pump"},
     resps |-> {TimeoutFailure, HttpJson(200, MessagePayload)},
     track |-> TRUE]

(***************************************************************************)
(* State                                                                   *)
(***************************************************************************)
VARIABLES
    env,                 \* the process environment (never written)
    API_BASE_URL,        \* module global of the protocol server
    DEFAULT_SESSION_ID,  \* module global of the protocol server
    tools,               \* the plugin's Tools instance: base_url, session_id
    inv,                 \* the handler invocations, by slot
    memo                 \* history: the first invocation that completed

vars == <<env, API_BASE_URL, DEFAULT_SESSION_ID, tools, inv, memo>>

NoMemo == [set |-> FALSE, fn |-> "", name |-> "", arguments |-> JObj(<<>>),
           resps |-> <<>>, sent |-> <<>>, out |-> NoOut]

\* call_tool keeping the session of the last call as the new default
\* (global DEFAULT_SESSION_ID; DEFAULT_SESSION_ID = session_id)
AdapterStateSticky(adapter, st) ==
    IF st.fn = "call_tool" /\ st.session_id.t = "str"
    THEN [adapter EXCEPT !.DEFAULT_SESSION_ID = st.session_id.s]
    ELSE adapter

\* the adapter-local state a handler leaves behind: no handler assigns a
\* module global or an attribute of the Tools instance
AdapterState(adapter, st) == adapter

Adapter == [API_BASE_URL |-> API_BASE_URL, DEFAULT_SESSION_ID |-> DEFAULT_SESSION_ID,
            tools |-> tools]

\* the handler of slot i has moved to state st
Step(i, st) ==
    LET a == AdapterState(Adapter, st) IN
    /\ inv' = [inv EXCEPT ![i] = st]
    /\ API_BASE_URL' = a.API_BASE_URL
    /\ DEFAULT_SESSION_ID' = a.DEFAULT_SESSION_ID
    /\ tools' = a.tools
    /\ UNCHANGED <<env, memo>>

Init ==
    /\ env \in Envs
    /\ API_BASE_URL = GetEnv(env, "PRICEBOOK_API_URL", DefaultApiBaseUrl)
    /\ DEFAULT_SESSION_ID = GetEnv(env, "MCP_SESSION_ID", DefaultSessionIdLiteral)
    /\ tools = ToolsInit
    /\ inv = [i \in 1..NumInvocations |-> Idle]
    /\ memo = NoMemo

(***************************************************************************)
(* Actions                                                                 *)
(***************************************************************************)
\* the host calls call_tool(name, arguments)
CallTool(i, U) ==
    /\ inv[i].pc = "idle"
    /\ \E c \in U.tools :
          Step(i, CallToolStart(c[1], c[2], DEFAULT_SESSION_ID, API_BASE_URL))

\* the host calls read_resource(uri)
ReadResource(i, U) ==
    /\ inv[i].pc = "idle"
    /\ \E uri \in U.uris : Step(i, ReadResourceStart(uri, DEFAULT_SESSION_ID, API_BASE_URL))

\* the chat UI calls Tools.search_pricebook(query)
SearchPricebook(i, U) ==
    /\ inv[i].pc = "idle"
    /\ \E q \in U.queries : Step(i, SearchPricebookStart(tools, "search_pricebook", q))

\* the chat UI calls Tools.get_pricebook_categories()
GetPricebookCategories(i) ==
    /\ inv[i].pc = "idle"
    /\ Step(i, GetPricebookCategoriesStart(tools))

\* the chat UI calls Tools.get_pricebook_status()
GetPricebookStatus(i) ==
    /\ inv[i].pc = "idle"
    /\ Step(i, GetPricebookStatusStart(tools))

\* the backend answers (or fails) the oldest outstanding request of slot i
\* and the suspended handler runs on
BackendResponds(i, U) ==
    /\ inv[i].pc = "awaiting"
    /\ inv[i].inflight # <<>>
    /\ \E resp \in U.resps :
          Step(i, CASE inv[i].fn = "call_tool" -> CallToolResume(inv[i], resp, API_BASE_URL)
                    [] inv[i].fn = "read_resource" -> ReadResourceResume(inv[i], resp)
                    [] inv[i].fn \in {"search_pricebook", "get_pricebook_categories"} ->
                          SearchPricebookResume(inv[i], resp)
                    [] inv[i].fn = "get_pricebook_status" ->
                          GetPricebookStatusResume(inv[i], resp))

\* the host takes the result; the slot is free again
Return(i, U) ==
    /\ inv[i].pc = "done"
    /\ inv' = [inv EXCEPT ![i] = Idle]
    /\ memo' = IF U.track /\ ~memo.set
               THEN [set |-> TRUE, fn |-> inv[i].fn, name |-> inv[i].name,
                     arguments |-> inv[i].arguments, resps |-> inv[i].resps,
                     sent |-> inv[i].sent, out |-> inv[i].out]
               ELSE memo
    /\ UNCHANGED <<env, API_BASE_URL, DEFAULT_SESSION_ID, tools>>

Handlers(U) ==
    \/ \E i \in U.slots : CallTool(i, U)
    \/ \E i \in U.slots : ReadResource(i, U)
    \/ \E i \in U.slots : SearchPricebook(i, U)
    \/ \E i \in U.slots : GetPricebookCategories(i)
    \/ \E i \in U.slots : GetPricebookStatus(i)
    \/ \E i \in U.slots : BackendResponds(i, U)
    \/ \E i \in U.slots : Return(i, U)

\* one invocation at a time, every tool and argument map
Next == Handlers(Full)
Spec == Init /\ [][Next]_vars

\* concurrent invocations
NextConcurrent == Handlers(Concurrent)
SpecConcurrent == Init /\ [][NextConcurrent]_vars

(***************************************************************************)
(* Properties                                                              *)
(***************************************************************************)
StartsWith(s, prefix) == Len(s) >= Len(prefix) /\ SubSeq(s, 1, Len(prefix)) = prefix

Slots == DOMAIN inv
IsCallTool(i) == inv[i].fn = "call_tool" /\ inv[i].pc # "idle"
IsChatRequest(req) == req.url = API_BASE_URL \o "/chat/pricebook"
\* the call shape of a request: its method, and whether it is a message to
\* the conversational endpoint or a direct REST call
Shape(req) == <<req.method, IF IsChatRequest(req) THEN "chat" ELSE "rest">>
CallShape(c) == <<c.method, IF c.endpoint = "/chat/pricebook" THEN "chat" ELSE "rest">>
TruthyArg(arguments, k) == PyTruthy(DictGet(arguments, k, JNull))

ChatToolNames ==
    {"search_pricebook", "list_categories", "start_estimate", "add_to_estimate",
     "show_estimate", "remove_from_estimate", "create_estimate", "clear_estimate", "chat"}
CatalogToolNames == {"get_materials", "get_services"}
PostToolNames == {"trigger_sync", "subscribe_webhook"}
PatchToolNames == {"update_service", "update_material"}

\* C1 as stated: the call shape of a registered tool is the same for every
\* argument map: whatever request an invocation has sent, its shape is the
\* shape of every call the same tool makes for any other argument map.
C1_ShapeByNameAlone ==
    \A i \in Slots :
        IsCallTool(i) /\ inv[i].name \in ToolNames =>
            \A j \in 1..Len(inv[i].sent) :
                \A a \in ToolArgs(inv[i].name) :
                    LET d == Dispatch(inv[i].name, JObj(a), JNull) IN
                    \A h \in 1..Len(d.calls) : CallShape(d.calls[h]) = Shape(inv[i].sent[j])

C1_ExpectedShape(name, arguments) ==
    IF name \in ChatToolNames
       \/ (name \in CatalogToolNames /\ TruthyArg(arguments, "category"))
    THEN <<"POST", "chat">>
    ELSE IF name \in PostToolNames THEN <<"POST", "rest">>
    ELSE IF name \in PatchToolNames THEN <<"PATCH", "rest">>
    ELSE <<"GET", "rest">>

\* C1 amended: the call shape is determined by the tool name alone for the 20
\* tools other than get_materials and get_services; for these two it is
\* determined by the name and by whether `category` is truthy: a POST to the
\* conversational endpoint when it is, a GET of the REST path when it is not.
C1_ShapeByNameAndCategory ==
    \A i \in Slots :
        IsCallTool(i) /\ inv[i].name \in ToolNames =>
            \A j \in 1..Len(inv[i].sent) :
                Shape(inv[i].sent[j]) = C1_ExpectedShape(inv[i].name, inv[i].arguments)

\* get_materials with a category and with an empty category have both sent
\* their request (in two runs): here the one with a category
C1_Witness ==
    \E i \in Slots :
        /\ IsCallTool(i) /\ inv[i].name = "get_materials"
        /\ TruthyArg(inv[i].arguments, "category")
        /\ inv[i].pc = "done" /\ Len(inv[i].sent) = 1
        /\ Shape(inv[i].sent[1]) = <<"POST", "chat">>

IsDone(i) == inv[i].pc = "done"
IsRegisteredCall(i) == IsCallTool(i) /\ inv[i].name \in ToolNames
IsErrorText(out) == ~out.raised /\ out.val.t = "str" /\ StartsWith(out.val.s, "Error:")

\* the backend call failed: no connection, a timeout, a body that is no
\* JSON, or an error status
FailedResponse(resp) ==
    \/ resp.k \in {"connect", "timeout"}
    \/ resp.k = "http" /\ (~resp.isjson \/ resp.status >= 400)

\* the `required` list of a tool's input schema
RequiredArgs(name) ==
    CASE name = "search_pricebook" -> {"query"}
      [] name = "add_to_estimate" -> {"items"}
      [] name = "remove_from_estimate" -> {"item"}
      [] name = "create_estimate" -> {"confirm"}
      [] name = "trigger_sync" -> {"type"}
      [] name \in {"get_service_details", "update_service"} -> {"serviceId"}
      [] name \in {"get_material_details", "update_material"} -> {"materialId"}
      [] name = "subscribe_webhook" -> {"webhookUrl", "events"}
      [] name = "chat" -> {"message"}
      [] OTHER -> {}
WellFormed(name, arguments) == \A k \in RequiredArgs(name) : HasKey(arguments, k)

IsToolInvocation(i) ==
    inv[i].fn \in {"call_tool", "search_pricebook", "get_pricebook_categories",
                   "get_pricebook_status"}

\* C2: every tool invocation of either adapter in which the backend call
\* fails or a required argument is missing returns, without raising, a text
\* that begins with "Error:".
C2_FailuresBecomeErrorText ==
    \A i \in Slots :
        /\ IsDone(i) /\ IsToolInvocation(i)
        /\ \/ \E j \in 1..Len(inv[i].resps) : FailedResponse(inv[i].resps[j])
           \/ IsRegisteredCall(i) /\ ~WellFormed(inv[i].name, inv[i].arguments)
        => IsErrorText(inv[i].out)

\* the payload call_tool formats: a registered tool has received a JSON
\* response to every request it sent and has returned
C3_Formatted(i) ==
    /\ IsDone(i) /\ IsRegisteredCall(i)
    /\ inv[i].sent # <<>> /\ Len(inv[i].resps) = Len(inv[i].sent)
    /\ \A j \in 1..Len(inv[i].resps) : inv[i].resps[j].k = "http" /\ inv[i].resps[j].isjson
C3_Payload(i) == inv[i].resps[Len(inv[i].resps)].body
\* the text is the message, possibly followed by the estimate summary
C3_IsMessageText(out, message) ==
    /\ ~out.raised /\ out.val.t = "str" /\ message.t = "str"
    /\ \/ out.val.s = message.s
       \/ StartsWith(out.val.s, message.s \o "\n\n[Estimate: ")
C3_IsJsonText(out, payload) == out = Returned(JStr(JsonDumps(payload, 0)))

C4_Case(i) ==
    /\ IsCallTool(i) /\ inv[i].sent # <<>>
    /\ \/ inv[i].name \in CatalogToolNames /\ ~TruthyArg(inv[i].arguments, "category")
       \/ inv[i].name \in {"get_equipment", "get_sync_logs"}
C4_Query(name) ==
    CASE name = "get_materials" -> "/pricebook/materials?pageSize="
      [] name = "get_services" -> "/pricebook/services?pageSize="
      [] name = "get_equipment" -> "/pricebook/equipment?pageSize="
      [] name = "get_sync_logs" -> "/api/sync/pricebook/logs?limit="
C4_Sends(i, default) ==
    inv[i].sent[1].url =
        API_BASE_URL \o C4_Query(inv[i].name)
        \o (IF HasKey(inv[i].arguments, "limit")
            THEN ToString(Lookup(inv[i].arguments, "limit").n)
            ELSE ToString(default))

\* C4 as stated: a supplied `limit` is sent as it is and an omitted one is
\* sent as 25, for get_materials, get_services, get_equipment and get_sync_logs.
C4_LimitDefaults25 == \A i \in Slots : C4_Case(i) => C4_Sends(i, 25)

\* C4 amended: a supplied `limit` is sent as it is; an omitted one is sent as
\* 25 by get_materials and get_services (without a category) and by
\* get_equipment, and as 10 by get_sync_logs.
C4_LimitDefaults25Or10 ==
    \A i \in Slots :
        C4_Case(i) => C4_Sends(i, IF inv[i].name = "get_sync_logs" THEN 10 ELSE 25)

\* get_sync_logs without a limit has asked for 10 logs
C4_Witness ==
    \E i \in Slots :
        /\ C4_Case(i) /\ inv[i].name = "get_sync_logs"
        /\ ~HasKey(inv[i].arguments, "limit")
        /\ inv[i].sent[1].url = API_BASE_URL \o "/api/sync/pricebook/logs?limit=10"

\* C5: every chat request of call_tool carries as sessionId the caller's
\* `sessionId` argument when the key is present (whatever its value) and the
\* environment default when it is absent; all chat requests of one
\* invocation carry the same sessionId.
C5_SessionForwardedVerbatim ==
    \A i \in Slots :
        IsCallTool(i) =>
            \A j \in 1..Len(inv[i].sent) :
                IsChatRequest(inv[i].sent[j]) =>
                    /\ Lookup(inv[i].sent[j].body, "sessionId") =
                          (IF HasKey(inv[i].arguments, "sessionId")
                           THEN Lookup(inv[i].arguments, "sessionId")
                           ELSE JStr(GetEnv(env, "MCP_SESSION_ID", "mcp-python-session")))
                    /\ \A h \in 1..Len(inv[i].sent) :
                          IsChatRequest(inv[i].sent[h]) =>
                              Lookup(inv[i].sent[h].body, "sessionId")
                                = Lookup(inv[i].sent[j].body, "sessionId")

\* create_estimate with a null sessionId has sent both of its messages
C5_Witness ==
    \E i \in Slots :
        /\ IsCallTool(i) /\ inv[i].name = "create_estimate" /\ Len(inv[i].sent) = 2
        /\ HasKey(inv[i].arguments, "sessionId")
        /\ Lookup(inv[i].arguments, "sessionId") = JNull
        /\ Lookup(inv[i].sent[2].body, "sessionId") = JNull

\* position of the first "?" of s at or after i, Len(s) + 1 when there is none
RECURSIVE QueryStart(_, _)
QueryStart(s, i) ==
    IF i > Len(s) THEN i
    ELSE IF SubSeq(s, i, i) = "?" THEN i ELSE QueryStart(s, i + 1)
HasSlash(s) == \E j \in 1..Len(s) : SubSeq(s, j, j) = "/"
\* the path of a url under the base url, without its query string
PathOf(url, base) ==
    LET rest == SubSeq(url, Len(base) + 1, Len(url))
    IN SubSeq(rest, 1, QueryStart(rest, 1) - 1)

DocumentedPaths ==
    {"/chat/pricebook", "/pricebook/materials", "/pricebook/services", "/pricebook/equipment",
     "/api/sync/pricebook/status", "/api/sync/pricebook/full",
     "/api/sync/pricebook/incremental", "/api/sync/pricebook/logs",
     "/api/n8n/events", "/api/n8n/subscriptions", "/api/n8n/subscribe"}
\* a documented path, or a catalog path followed by one id segment
IsDocumentedPath(path) ==
    \/ path \in DocumentedPaths
    \/ \E k \in {"/pricebook/materials/", "/pricebook/services/", "/pricebook/equipment/"} :
          /\ StartsWith(path, k) /\ Len(path) > Len(k)
          /\ ~HasSlash(SubSeq(path, Len(k) + 1, Len(path)))

IsServerInvocation(i) == inv[i].fn \in {"call_tool", "read_resource"}

\* C6: every request the protocol server issues, for any tool name and any
\* argument values, targets a path of the documented backend surface.
C6_DocumentedSurface ==
    \A i \in Slots :
        IsServerInvocation(i) =>
            \A j \in 1..Len(inv[i].sent) :
                /\ StartsWith(inv[i].sent[j].url, API_BASE_URL)
                /\ IsDocumentedPath(PathOf(inv[i].sent[j].url, API_BASE_URL))

\* C7 as stated: a call_tool invocation of a registered tool with a
\* well-formed argument map has sent exactly one request when it returns.
C7_OneRequest ==
    \A i \in Slots :
        IsDone(i) /\ IsRegisteredCall(i) /\ WellFormed(inv[i].name, inv[i].arguments) =>
            Len(inv[i].sent) = 1

\* C7 amended: such an invocation has sent exactly one request when it
\* returns, except create_estimate with a truthy `confirm`, which has sent
\* two when its first request returned a JSON payload (and one when its
\* first request failed).
C7_OneRequestExceptConfirm ==
    \A i \in Slots :
        IsDone(i) /\ IsRegisteredCall(i) /\ WellFormed(inv[i].name, inv[i].arguments) =>
            Len(inv[i].sent) =
                (IF /\ inv[i].name = "create_estimate"
                    /\ TruthyArg(inv[i].arguments, "confirm")
                    /\ inv[i].resps[1].k = "http" /\ inv[i].resps[1].isjson
                 THEN 2 ELSE 1)

\* a confirmed create_estimate has returned after two requests
C7_Witness ==
    \E i \in Slots :
        /\ IsDone(i) /\ IsRegisteredCall(i) /\ inv[i].name = "create_estimate"
        /\ TruthyArg(inv[i].arguments, "confirm")
        /\ Len(inv[i].sent) = 2 /\ Len(inv[i].resps) = 2

\* the requests call_tool makes for a tool name and argument map, as far as
\* they depend on nothing but the invocation's own inputs and the environment
C8_OwnRequests(i) ==
    LET d == Dispatch(inv[i].name, inv[i].arguments,
                      SessionId(inv[i].arguments,
                                GetEnv(env, "MCP_SESSION_ID", "mcp-python-session")))
    IN [j \in 1..Len(d.calls) |->
            ApiRequest(GetEnv(env, "PRICEBOOK_API_URL", "http://localhost:3001"), d.calls[j]).v]

\* C8: under any interleaving of concurrent invocations each invocation has
\* at most one request outstanding, a later request of an invocation is sent
\* only after the response to its earlier one has arrived, and the requests
\* a call_tool invocation sends are those its own name and arguments
\* determine, whatever the other invocations do.
C8_SingleInFlight ==
    \A i \in Slots :
        /\ Len(inv[i].inflight) <= 1
        /\ Len(inv[i].sent) = Len(inv[i].resps) + Len(inv[i].inflight)
        /\ IsCallTool(i) =>
              /\ Len(inv[i].sent) <= Len(C8_OwnRequests(i))
              /\ \A j \in 1..Len(inv[i].sent) : inv[i].sent[j] = C8_OwnRequests(i)[j]

\* two invocations are suspended on the backend at the same time, one of
\* them a create_estimate waiting for the answer to its second message
C8_Witness ==
    \E i, k \in Slots :
        /\ i # k
        /\ inv[i].pc = "awaiting" /\ inv[k].pc = "awaiting"
        /\ inv[i].name = "create_estimate" /\ Len(inv[i].sent) = 2
        /\ Len(inv[i].inflight) = 1 /\ Len(inv[k].inflight) = 1

C9_SameInvocation(i) ==
    /\ memo.set /\ IsDone(i)
    /\ inv[i].fn = memo.fn /\ inv[i].name = memo.name
    /\ inv[i].arguments = memo.arguments /\ inv[i].resps = memo.resps

\* C9: no invocation changes adapter-local state (the server's base url and
\* default session id, the plugin's base_url and session_id), and an
\* invocation with the name, arguments and backend responses of the first
\* invocation that completed sends the same requests and returns the same
\* result as that first one.
C9_Stateless ==
    /\ API_BASE_URL = GetEnv(env, "PRICEBOOK_API_URL", "http://localhost:3001")
    /\ DEFAULT_SESSION_ID = GetEnv(env, "MCP_SESSION_ID", "mcp-python-session")
    /\ tools = [base_url |-> "http://perfect-catch-st-automation:3001",
                session_id |-> "openwebui"]
    /\ \A i \in Slots :
          C9_SameInvocation(i) => inv[i].sent = memo.sent /\ inv[i].out = memo.out

\* show_estimate without a sessionId completes again with the responses of
\* the first completed invocation, while another invocation that named a
\* session has completed or is in progress
C9_Witness ==
    \E i, k \in Slots :
        /\ i # k
        /\ C9_SameInvocation(i) /\ inv[i].fn = "call_tool"
        /\ ~HasKey(inv[i].arguments, "sessionId")
        /\ inv[k].fn = "call_tool" /\ HasKey(inv[k].arguments, "sessionId")
        /\ inv[k].sent # <<>>

IsResourceRead(i) == inv[i].fn = "read_resource" /\ inv[i].pc # "idle"

\* C10 as stated: read_resource issues only GET requests for the three
\* listed uris and no request for any other uri.
C10_OnlyGets ==
    \A i \in Slots :
        IsResourceRead(i) =>
            IF inv[i].name \in ResourceUris
            THEN \A j \in 1..Len(inv[i].sent) : inv[i].sent[j].method = "GET"
            ELSE inv[i].sent = <<>>

\* C10 amended: read_resource issues one GET (of the sync status, of the
\* webhook events) for pricebook://status and pricebook://webhook-events;
\* for pricebook://categories it issues one POST of the message "show
\* categories" to /chat/pricebook under the default session id and nothing
\* else; it never issues a PATCH or a POST to a REST path; for any other uri
\* it issues no request and raises.
C10_GetsAndOneChatPost ==
    \A i \in Slots :
        IsResourceRead(i) =>
            CASE inv[i].name = "pricebook://status" ->
                    inv[i].sent = <<[method |-> "GET", body |-> JNull,
                                     url |-> API_BASE_URL \o "/api/sync/pricebook/status"]>>
              [] inv[i].name = "pricebook://webhook-events" ->
                    inv[i].sent = <<[method |-> "GET", body |-> JNull,
                                     url |-> API_BASE_URL \o "/api/n8n/events"]>>
              [] inv[i].name = "pricebook://categories" ->
                    inv[i].sent =
                        <<[method |-> "POST", url |-> API_BASE_URL \o "/chat/pricebook",
                           body |-> JObj(<< <<"sessionId", JStr(DEFAULT_SESSION_ID)>>,
                                            <<"message", JStr("show categories")>> >>)]>>
              [] OTHER -> inv[i].sent = <<>> /\ IsDone(i) /\ inv[i].out.raised

\* the categories resource has been read with a POST
C10_Witness ==
    \E i \in Slots :
        /\ IsResourceRead(i) /\ IsDone(i) /\ inv[i].name = "pricebook://categories"
        /\ Len(inv[i].sent) = 1 /\ inv[i].sent[1].method = "POST"
        /\ ~inv[i].out.raised

\* call_tool has formatted a payload by its `message` field: the payload is
\* an object with a non-empty string message and a context that is absent
\* or an object
C11_ByMessage(i) ==
    /\ C3_Formatted(i)
    /\ C3_Payload(i).t = "obj"
    /\ TruthyArg(C3_Payload(i), "message")
    /\ Lookup(C3_Payload(i), "message").t = "str"
    /\ DictGet(C3_Payload(i), "context", JObj(<<>>)).t = "obj"
C11_Context(i) == DictGet(C3_Payload(i), "context", JObj(<<>>))
C11_Summary(ctx) ==
    "\n\n[Estimate: "
    \o (IF HasKey(ctx, "estimateItemCount")
        THEN ToString(Lookup(ctx, "estimateItemCount").n) ELSE "0")
    \o " items, $" \o ToString(Lookup(ctx, "estimateTotal").n) \o "]"

IsCreateEstimate(i) == IsCallTool(i) /\ inv[i].name = "create_estimate"
C12_Message(req) == Lookup(req.body, "message")
\* api_request returned a payload: it did not raise (no connection failure,
\* no timeout, a JSON body)
C12_Returned(resp) == resp.k = "http" /\ resp.isjson

=============================================================================
